---- MODULE Spec2Model ----
(***************************************************************************)
(* Narrow phase ray/triangle intersection: trimesh/ray/ray_triangle_cpu.py *)
(*                                                                         *)
(* rays_triangles_id (the ray loop) and ray_triangles (the staged          *)
(* Moller-Trumbore filter) as state machines.                              *)
(*                                                                         *)
(* Floating point values are modelled as extended rationals: a finite      *)
(* value is an exact fraction <<n, d>> in lowest terms with d > 0 (no      *)
(* rounding, no overflow), <<1, 0>> is +inf, <<-1, 0>> is -inf and         *)
(* <<0, 0>> is NaN, with the IEEE rules for arithmetic and comparison of   *)
(* the non-finite values.  numpy arrays are sequences (1-based here,       *)
(* 0-based in the source: triangle index i is position i + 1).             *)
(***************************************************************************)
EXTENDS Integers, Sequences, FiniteSets

(***************************************************************************)
(* Extended rational arithmetic (float64 values and operators)             *)
(***************************************************************************)
NaN  == <<0, 0>>
PInf == <<1, 0>>
NInf == <<-1, 0>>

IsNaN(x)    == x = NaN
IsInf(x)    == x = PInf \/ x = NInf

AbsInt(n) == IF n < 0 THEN -n ELSE n
SignInt(n) == IF n < 0 THEN -1 ELSE IF n > 0 THEN 1 ELSE 0

RECURSIVE GCD(_, _)
GCD(a, b) == IF b = 0 THEN a ELSE GCD(b, a % b)

\* the fraction n/d (d # 0) in lowest terms with a positive denominator
Rat(n, d) ==
    LET g == GCD(AbsInt(n), AbsInt(d))
        s == IF d < 0 THEN -1 ELSE 1
    IN  <<(s * n) \div g, (s * d) \div g>>

Int2F(n) == <<n, 1>>
Zero     == <<0, 1>>
One      == <<1, 1>>

\* -x
FNeg(x) == <<-x[1], x[2]>>

\* np.abs(x)
FAbs(x) == <<AbsInt(x[1]), x[2]>>

\* x + y
FAdd(x, y) ==
    IF IsNaN(x) \/ IsNaN(y) THEN NaN
    ELSE IF IsInf(x) /\ IsInf(y) THEN (IF x = y THEN x ELSE NaN)
    ELSE IF IsInf(x) THEN x
    ELSE IF IsInf(y) THEN y
    ELSE Rat(x[1] * y[2] + y[1] * x[2], x[2] * y[2])

\* x - y
FSub(x, y) == FAdd(x, FNeg(y))

\* x * y
FMul(x, y) ==
    IF IsNaN(x) \/ IsNaN(y) THEN NaN
    ELSE IF IsInf(x) \/ IsInf(y)
         THEN (IF x[1] = 0 \/ y[1] = 0 THEN NaN
               ELSE <<SignInt(x[1]) * SignInt(y[1]), 0>>)
    ELSE Rat(x[1] * y[1], x[2] * y[2])

\* 1.0 / x   (1.0 / 0.0 is inf of the sign of the zero; +0.0 is modelled)
FRecip(x) ==
    IF IsNaN(x) THEN NaN
    ELSE IF IsInf(x) THEN Zero
    ELSE IF x[1] = 0 THEN PInf
    ELSE Rat(x[2], x[1])

\* x < y : false when either side is NaN
FLt(x, y) ==
    IF IsNaN(x) \/ IsNaN(y) THEN FALSE
    ELSE IF IsInf(x) \/ IsInf(y)
         THEN (IF x = y THEN FALSE
               ELSE IF x = NInf \/ y = PInf THEN TRUE
               ELSE FALSE)
    ELSE x[1] * y[2] < y[1] * x[2]

\* x > y, x <= y, x >= y : false when either side is NaN
FGt(x, y) == FLt(y, x)
FLe(x, y) == (~IsNaN(x)) /\ (~IsNaN(y)) /\ ~FLt(y, x)
FGe(x, y) == FLe(y, x)

(***************************************************************************)
(* 3-vectors                                                               *)
(***************************************************************************)
Vec(a, b, c) == <<a, b, c>>
VSub(a, b)   == <<FSub(a[1], b[1]), FSub(a[2], b[2]), FSub(a[3], b[3])>>
VScale(k, a) == <<FMul(k, a[1]), FMul(k, a[2]), FMul(k, a[3])>>
VNeg(a)      == <<FNeg(a[1]), FNeg(a[2]), FNeg(a[3])>>

\* np.dot of two 3-vectors
Dot(a, b) == FAdd(FAdd(FMul(a[1], b[1]), FMul(a[2], b[2])), FMul(a[3], b[3]))

\* np.cross of two 3-vectors
Cross(a, b) ==
    <<FSub(FMul(a[2], b[3]), FMul(a[3], b[2])),
      FSub(FMul(a[3], b[1]), FMul(a[1], b[3])),
      FSub(FMul(a[1], b[2]), FMul(a[2], b[1]))>>

\* _diag_dot: dot product by row of a and b
_diag_dot(a, b) == [i \in 1..Len(a) |-> Dot(a[i], b[i])]

(***************************************************************************)
(* numpy boolean masks                                                     *)
(***************************************************************************)
\* np.ones(n, dtype=np.bool)
Ones(n) == [i \in 1..n |-> TRUE]

\* mask.any()
AnyTrue(mask) == \E i \in 1..Len(mask) : mask[i]

RECURSIVE TruePosFrom(_, _)
TruePosFrom(mask, i) ==
    IF i > Len(mask) THEN <<>>
    ELSE (IF mask[i] THEN <<i>> ELSE <<>>) \o TruePosFrom(mask, i + 1)

\* np.nonzero(mask): the positions of the true entries, ascending
TruePos(mask) == TruePosFrom(mask, 1)

\* a[pos] for a sequence of positions
Take(a, pos) == [j \in 1..Len(pos) |-> a[pos[j]]]

\* a[mask] for a mask of the length of a
Compress(a, mask) == Take(a, TruePos(mask))

\* candidates[candidates] = new_candidates : the j-th true entry gets new[j]
MaskAssign(c, new) ==
    [i \in 1..Len(c) |->
        IF c[i] THEN new[Cardinality({j \in 1..i : c[j]})] ELSE FALSE]

(***************************************************************************)
(* ray_triangles: intersection of multiple triangles and a single ray      *)
(***************************************************************************)
\* TOL_ZERO, imported from ..constants at line 7: a small positive tolerance.
\* Its value is set outside this file; 2^-10 stands for it, so that the
\* input values fall on both sides of it.
TOL_ZERO == Rat(1, 1024)

\* line 74: np.abs(det) < TOL_ZERO marks the triangle as no candidate
DetExcluded(d) == FLt(FAbs(d), TOL_ZERO)

\* lines 83-84: logical_not(logical_or(u < -TOL_ZERO, u > 1 + TOL_ZERO))
UKeep(uu) == ~(FLt(uu, FNeg(TOL_ZERO)) \/ FGt(uu, FAdd(One, TOL_ZERO)))

\* lines 94-95: logical_not(logical_or(v < -TOL_ZERO, u + v > 1 + TOL_ZERO))
VKeep(uu, vv) ==
    ~(FLt(vv, FNeg(TOL_ZERO)) \/ FGt(FAdd(uu, vv), FAdd(One, TOL_ZERO)))

\* line 102 comparing the magnitude of t
TKeepMagnitude(tt) == FGt(FAbs(tt), TOL_ZERO)

\* line 102: t > TOL_ZERO
TKeep(tt) == FGt(tt, TOL_ZERO)

\* lines 62-66
vert0(tris) == [i \in 1..Len(tris) |-> tris[i][1]]
edge0(tris) == [i \in 1..Len(tris) |-> VSub(tris[i][2], tris[i][1])]
edge1(tris) == [i \in 1..Len(tris) |-> VSub(tris[i][3], tris[i][1])]

\* the locals of ray_triangles before line 59; line is the line reached
NoFrame ==
    [candidates |-> <<>>, new_candidates |-> <<>>, P |-> <<>>, det |-> <<>>,
     inv_det |-> <<>>, T |-> <<>>, u |-> <<>>, Q |-> <<>>, v |-> <<>>,
     t |-> <<>>, line |-> 59]

\* lines 59-76: the determinant filter
Lines59_76(tris, d) ==
    LET P   == [i \in 1..Len(tris) |-> Cross(d, edge1(tris)[i])]
        det == _diag_dot(edge0(tris), P)
        c0  == Ones(Len(tris))
    IN  [NoFrame EXCEPT
            !.line = 76,
            !.P = P,
            !.det = det,
            !.candidates =
                [i \in 1..Len(tris) |->
                    IF DetExcluded(det[i]) THEN FALSE ELSE c0[i]]]

\* lines 78-86 with u left unscaled by inv_det
Lines78_86Unscaled(tris, o, f) ==
    LET c       == f.candidates
        dc      == Compress(f.det, c)
        inv_det == [j \in 1..Len(dc) |-> FRecip(dc[j])]
        v0c     == Compress(vert0(tris), c)
        T       == [j \in 1..Len(v0c) |-> VSub(o, v0c[j])]
        u       == _diag_dot(T, Compress(f.P, c))
        new     == [j \in 1..Len(u) |-> UKeep(u[j])]
    IN  [f EXCEPT
            !.line = 86,
            !.inv_det = inv_det,
            !.T = T,
            !.u = u,
            !.new_candidates = new,
            !.candidates = MaskAssign(c, new)]

\* lines 78-86: the filter on u
Lines78_86(tris, o, f) ==
    LET c       == f.candidates
        dc      == Compress(f.det, c)
        inv_det == [j \in 1..Len(dc) |-> FRecip(dc[j])]
        v0c     == Compress(vert0(tris), c)
        T       == [j \in 1..Len(v0c) |-> VSub(o, v0c[j])]
        dd      == _diag_dot(T, Compress(f.P, c))
        u       == [j \in 1..Len(dd) |-> FMul(dd[j], inv_det[j])]
        new     == [j \in 1..Len(u) |-> UKeep(u[j])]
    IN  [f EXCEPT
            !.line = 86,
            !.inv_det = inv_det,
            !.T = T,
            !.u = u,
            !.new_candidates = new,
            !.candidates = MaskAssign(c, new)]

\* lines 87-97: the filter on v and u + v
Lines87_97(tris, d, f) ==
    LET inv_det == Compress(f.inv_det, f.new_candidates)
        T       == Compress(f.T, f.new_candidates)
        u       == Compress(f.u, f.new_candidates)
        e0c     == Compress(edge0(tris), f.candidates)
        Q       == [j \in 1..Len(T) |-> Cross(T[j], e0c[j])]
        v       == [j \in 1..Len(Q) |-> FMul(Dot(d, Q[j]), inv_det[j])]
        new     == [j \in 1..Len(v) |-> VKeep(u[j], v[j])]
    IN  [f EXCEPT
            !.line = 97,
            !.inv_det = inv_det,
            !.T = T,
            !.u = u,
            !.Q = Q,
            !.v = v,
            !.new_candidates = new,
            !.candidates = MaskAssign(f.candidates, new)]

\* lines 98-104: the filter on t
Lines98_104(tris, f) ==
    LET Q       == Compress(f.Q, f.new_candidates)
        inv_det == Compress(f.inv_det, f.new_candidates)
        dd      == _diag_dot(Compress(edge1(tris), f.candidates), Q)
        t       == [j \in 1..Len(dd) |-> FMul(dd[j], inv_det[j])]
        new     == [j \in 1..Len(t) |-> TKeep(t[j])]
    IN  [f EXCEPT
            !.line = 104,
            !.Q = Q,
            !.inv_det = inv_det,
            !.t = t,
            !.new_candidates = new,
            !.candidates = MaskAssign(f.candidates, new)]

\* ray_triangles(triangles, ray_origin, ray_direction): the returned mask
ray_triangles(tris, o, d) ==
    LET f1 == Lines59_76(tris, d)
        f2 == Lines78_86(tris, o, f1)
        f3 == Lines87_97(tris, d, f2)
        f4 == Lines98_104(tris, f3)
    IN  IF ~AnyTrue(f1.candidates) THEN f1.candidates
        ELSE IF ~AnyTrue(f2.candidates) THEN f2.candidates
        ELSE IF ~AnyTrue(f3.candidates) THEN f3.candidates
        ELSE f4.candidates

(***************************************************************************)
(* numpy indexing                                                          *)
(***************************************************************************)
\* a[index] for an array of length n: the positions selected, or an
\* IndexError.  index is a boolean mask or a list of integer indices.  A
\* boolean mask whose length differs from n is an IndexError in numpy >= 1.13
\* (strict); older releases select the true positions as long as they exist.
Index(n, index, strict) ==
    IF index.kind = "mask"
    THEN LET pos == TruePos(index.data)
         IN  IF strict /\ Len(index.data) # n THEN [ok |-> FALSE, pos |-> <<>>]
             ELSE IF \E j \in 1..Len(pos) : pos[j] > n
                  THEN [ok |-> FALSE, pos |-> <<>>]
             ELSE [ok |-> TRUE, pos |-> pos]
    ELSE IF \E j \in 1..Len(index.data) :
                index.data[j] < -n \/ index.data[j] >= n
         THEN [ok |-> FALSE, pos |-> <<>>]
    ELSE [ok |-> TRUE,
          pos |-> [j \in 1..Len(index.data) |-> (index.data[j] % n) + 1]]

\* np.array(hits): a list of arrays of different lengths is a ValueError in
\* numpy >= 1.24 (strict); older releases build an array of objects.
Ragged(hs) == \E i, j \in 1..Len(hs) : Len(hs[i].data) # Len(hs[j].data)

(***************************************************************************)
(* Inputs                                                                  *)
(***************************************************************************)
MaxTris == 2
MaxRays == 2

IV(a, b, c) == <<Int2F(a), Int2F(b), Int2F(c)>>

TriA == <<IV(0, 0, 0), IV(1, 0, 0), IV(0, 1, 0)>>
TriB == <<IV(1, 0, 0), IV(0, 1, 0), IV(-1, 0, 0)>>
TriC == <<IV(0, 0, 0), IV(0, 1, -1), IV(0, 1, 1)>>
TriCatalog == <<TriA, TriB, TriC>>

\* the first n triangles of the catalog, repeated cyclically
Mesh(n) == [i \in 1..n |-> TriCatalog[((i - 1) % Len(TriCatalog)) + 1]]

Down == IV(0, 0, -1)
RayCatalog ==
    { <<Vec(Rat(1, 4), Rat(1, 4), One), Down>>,
      <<Vec(Rat(-1, 2), Rat(1, 4), One), Down>> }

SeqsUpTo(S, n) == UNION {[1..k -> S] : k \in 0..n}

\* candidate sets over n triangles (0-based indices): all, none, all but one
CandSubsets(n) ==
    {0..(n - 1), {}} \cup {(0..(n - 1)) \ {i} : i \in 0..(n - 1)}

MaskOf(S, n) == [i \in 1..n |-> (i - 1) \in S]
IdxOf(S, n) ==
    LET pos == TruePos(MaskOf(S, n)) IN [j \in 1..Len(pos) |-> pos[j] - 1]

\* the per-ray entries of ray_candidates: index lists and masks of the
\* candidate sets, and masks of a wrong length
CandOptions(n) ==
    {[kind |-> "idx", data |-> IdxOf(S, n)] : S \in CandSubsets(n)}
    \cup {[kind |-> "mask", data |-> MaskOf(S, n)] : S \in CandSubsets(n)}
    \cup {[kind |-> "mask", data |-> Ones(n) \o <<FALSE>>]}
    \cup (IF n >= 1 THEN {[kind |-> "mask", data |-> Ones(n - 1)]} ELSE {})

None == [isNone |-> TRUE, items |-> <<>>]

RayCandidates(n) ==
    {None} \cup {[isNone |-> FALSE, items |-> c] :
                    c \in SeqsUpTo(CandOptions(n), MaxRays)}

\* the entries of hits before the loop
NoHits == [dtype |-> "None", data |-> <<>>]
NoResult == [kind |-> "none", value |-> <<>>]

(***************************************************************************)
(* State                                                                   *)
(***************************************************************************)
VARIABLES
    triangles, rays, ray_candidates, return_any,  \* the caller's arguments
    np_strict,       \* the numpy release rejects deprecated indexing
    ones,            \* the array made at line 35
    candidates,      \* the array candidates names: "ones" or "supplied"
    hits, ray_index,
    batch, ray_origin, ray_direction,  \* the arguments of ray_triangles
    rt,              \* the locals of ray_triangles
    pc, result,
    calls            \* calls[k]: invocations of ray_triangles for ray k - 1

vars == <<triangles, rays, ray_candidates, return_any, np_strict, ones,
          candidates, hits, ray_index, batch, ray_origin, ray_direction,
          rt, pc, result, calls>>

inputs == <<triangles, rays, ray_candidates, return_any>>
driver == <<ones, candidates, hits, ray_index, result, calls>>

\* the array the name candidates refers to
Deref(ref) ==
    IF ref = "ones" THEN [kind |-> "mask", data |-> ones]
    ELSE ray_candidates.items[ray_index + 1]

\* line 59 taking the array the caller's candidates are in
RtMaskShared == "caller"

\* line 59: the mask of ray_triangles is a new array of its own
RtMaskOwner == "ray_triangles"

\* the in-place writes of lines 74, 85, 96 and 102 go to the array that
\* the mask of ray_triangles is
StoreMask(m) ==
    IF RtMaskOwner = "ray_triangles" THEN UNCHANGED <<ones, ray_candidates>>
    ELSE IF candidates = "ones"
         THEN ones' = m /\ UNCHANGED ray_candidates
    ELSE /\ ray_candidates' =
                [ray_candidates EXCEPT !.items[ray_index + 1].data = m]
         /\ UNCHANGED ones

(***************************************************************************)
(* ray_triangles, one action per block between two returns                 *)
(***************************************************************************)
RT_Det ==
    /\ pc = "rt59"
    /\ LET f == Lines59_76(batch, ray_direction)
       IN  /\ rt' = f
           /\ StoreMask(f.candidates)
           /\ pc' = IF AnyTrue(f.candidates) THEN "rt78" ELSE "rt_ret"
    /\ UNCHANGED <<triangles, rays, return_any, np_strict, candidates, hits,
                   ray_index, batch, ray_origin, ray_direction, result, calls>>

RT_U ==
    /\ pc = "rt78"
    /\ LET f == Lines78_86(batch, ray_origin, rt)
       IN  /\ rt' = f
           /\ StoreMask(f.candidates)
           /\ pc' = IF AnyTrue(f.candidates) THEN "rt87" ELSE "rt_ret"
    /\ UNCHANGED <<triangles, rays, return_any, np_strict, candidates, hits,
                   ray_index, batch, ray_origin, ray_direction, result, calls>>

RT_V ==
    /\ pc = "rt87"
    /\ LET f == Lines87_97(batch, ray_direction, rt)
       IN  /\ rt' = f
           /\ StoreMask(f.candidates)
           /\ pc' = IF AnyTrue(f.candidates) THEN "rt98" ELSE "rt_ret"
    /\ UNCHANGED <<triangles, rays, return_any, np_strict, candidates, hits,
                   ray_index, batch, ray_origin, ray_direction, result, calls>>

RT_T ==
    /\ pc = "rt98"
    /\ LET f == Lines98_104(batch, rt)
       IN  /\ rt' = f
           /\ StoreMask(f.candidates)
           /\ pc' = "rt_ret"
    /\ UNCHANGED <<triangles, rays, return_any, np_strict, candidates, hits,
                   ray_index, batch, ray_origin, ray_direction, result, calls>>

(***************************************************************************)
(* rays_triangles_id                                                       *)
(***************************************************************************)
Raise(e) ==
    /\ pc' = "error"
    /\ result' = [kind |-> e, value |-> <<>>]

\* lines 38-42: the next ray, its candidates, the call of ray_triangles
Call ==
    /\ pc = "loop"
    /\ ray_index < Len(rays)
    /\ IF (~ray_candidates.isNone) /\ ray_index + 1 > Len(ray_candidates.items)
       THEN /\ Raise("IndexError")
            /\ UNCHANGED <<candidates, batch, ray_origin, ray_direction, rt,
                           calls>>
       ELSE LET ref == IF ray_candidates.isNone THEN candidates
                       ELSE "supplied"
                sel == Index(Len(triangles), Deref(ref), np_strict)
            IN  /\ candidates' = ref
                /\ IF sel.ok
                   THEN /\ batch' = Take(triangles, sel.pos)
                        /\ ray_origin' = rays[ray_index + 1][1]
                        /\ ray_direction' = rays[ray_index + 1][2]
                        /\ rt' = NoFrame
                        /\ calls' = [calls EXCEPT ![ray_index + 1] = @ + 1]
                        /\ pc' = "rt59"
                        /\ UNCHANGED result
                   ELSE /\ Raise("IndexError")
                        /\ UNCHANGED <<batch, ray_origin, ray_direction, rt,
                                       calls>>
    /\ UNCHANGED <<inputs, np_strict, ones, hits, ray_index>>

\* hit.all()
HitAll(hit) == \A i \in 1..Len(hit) : hit[i]

\* hit.any()
HitAny(hit) == AnyTrue(hit)

\* line 46: np.array(candidates)[hit]
MapBack(cand, hit, strict) ==
    LET sel == Index(Len(cand.data), [kind |-> "mask", data |-> hit], strict)
    IN  [ok |-> sel.ok,
         value |-> [dtype |-> IF cand.kind = "mask" THEN "bool" ELSE "int",
                    data  |-> IF sel.ok THEN Take(cand.data, sel.pos)
                              ELSE <<>>]]

\* lines 43-46: ray_triangles has returned hit
Record ==
    /\ pc = "rt_ret"
    /\ IF return_any
       THEN IF HitAny(rt.candidates)
            THEN /\ result' = [kind |-> "bool", value |-> TRUE]
                 /\ pc' = "done"
                 /\ UNCHANGED <<hits, ray_index>>
            ELSE /\ ray_index' = ray_index + 1
                 /\ pc' = "loop"
                 /\ UNCHANGED <<hits, result>>
       ELSE LET m == MapBack(Deref(candidates), rt.candidates, np_strict)
            IN  IF m.ok
                THEN /\ hits' = [hits EXCEPT ![ray_index + 1] = m.value]
                     /\ ray_index' = ray_index + 1
                     /\ pc' = "loop"
                     /\ UNCHANGED result
                ELSE /\ Raise("IndexError")
                     /\ UNCHANGED <<hits, ray_index>>
    /\ UNCHANGED <<inputs, np_strict, ones, candidates, batch, ray_origin,
                   ray_direction, rt, calls>>

\* lines 48-49: the loop is over
Finish ==
    /\ pc = "loop"
    /\ ray_index = Len(rays)
    /\ IF return_any
       THEN /\ result' = [kind |-> "bool", value |-> FALSE]
            /\ pc' = "done"
       ELSE IF np_strict /\ Ragged(hits)
            THEN Raise("ValueError")
            ELSE /\ result' = [kind |-> "hits", value |-> hits]
                 /\ pc' = "done"
    /\ UNCHANGED <<inputs, np_strict, ones, candidates, hits, ray_index,
                   batch, ray_origin, ray_direction, rt, calls>>

\* the state at line 38, after lines 35-36
Init ==
    /\ \E n \in 0..MaxTris :
          /\ triangles = Mesh(n)
          /\ ray_candidates \in RayCandidates(n)
          /\ ones = Ones(n)
    /\ rays \in SeqsUpTo(RayCatalog, MaxRays)
    /\ return_any \in BOOLEAN
    /\ np_strict \in BOOLEAN
    /\ candidates = "ones"
    /\ hits = [k \in 1..Len(rays) |-> NoHits]
    /\ ray_index = 0
    /\ batch = <<>>
    /\ ray_origin = IV(0, 0, 0)
    /\ ray_direction = IV(0, 0, 0)
    /\ rt = NoFrame
    /\ pc = "loop"
    /\ result = NoResult
    /\ calls = [k \in 1..Len(rays) |-> 0]

Next == Call \/ RT_Det \/ RT_U \/ RT_V \/ RT_T \/ Record \/ Finish

Spec == Init /\ [][Next]_vars

(***************************************************************************)
(* ray_triangles on its own: one call on a batch and a ray                 *)
(***************************************************************************)
Up     == IV(0, 0, 1)
XPlus  == IV(1, 0, 0)
XMinus == IV(-1, 0, 0)

Origins ==
    { Vec(Rat(1, 4), Rat(1, 4), One),
      Vec(Rat(-1, 2), Rat(1, 4), One),
      IV(5, 5, 1),
      IV(0, 0, -1),
      Vec(One, Rat(1, 2), Zero),
      Vec(PInf, Zero, Zero),
      Vec(NaN, Zero, Zero) }

Directions == { Down, Up, XPlus, XMinus, Vec(Zero, Zero, NaN) }

\* lines 76, 86, 97, 104: return candidates
RT_Return ==
    /\ pc = "rt_ret"
    /\ pc' = "rt_done"
    /\ result' = [kind |-> "mask", value |-> rt.candidates]
    /\ UNCHANGED <<inputs, np_strict, ones, candidates, hits, ray_index,
                   batch, ray_origin, ray_direction, rt, calls>>

InitRT ==
    /\ batch \in SeqsUpTo({TriA, TriB, TriC}, MaxTris)
    /\ ray_origin \in Origins
    /\ ray_direction \in Directions
    /\ rt = NoFrame
    /\ pc = "rt59"
    /\ result = NoResult
    /\ triangles = <<>>
    /\ rays = <<>>
    /\ ray_candidates = None
    /\ return_any = FALSE
    /\ np_strict = FALSE
    /\ ones = <<>>
    /\ candidates = "ones"
    /\ hits = <<>>
    /\ ray_index = 0
    /\ calls = <<>>

NextRT == RT_Det \/ RT_U \/ RT_V \/ RT_T \/ RT_Return

SpecRT == InitRT /\ [][NextRT]_vars

(***************************************************************************)
(* Properties of ray_triangles (checked under SpecRT)                      *)
(***************************************************************************)
\* the Moller-Trumbore quantities of one triangle and one ray
MT(tri, o, d) ==
    LET e0  == VSub(tri[2], tri[1])
        e1  == VSub(tri[3], tri[1])
        P   == Cross(d, e1)
        det == Dot(e0, P)
        inv == FRecip(det)
        T   == VSub(o, tri[1])
        Q   == Cross(T, e0)
    IN  [det |-> det,
         u   |-> FMul(Dot(T, P), inv),
         v   |-> FMul(Dot(d, Q), inv),
         t   |-> FMul(Dot(e1, Q), inv)]

OnePlusTol == FAdd(One, TOL_ZERO)
MinusTol   == FNeg(TOL_ZERO)

\* the staged conditions on one triangle, as a short-circuit conjunction
PassesAll(tri, o, d) ==
    LET m == MT(tri, o, d)
    IN  /\ FGe(FAbs(m.det), TOL_ZERO)
        /\ FLe(MinusTol, m.u) /\ FLe(m.u, OnePlusTol)
        /\ FGe(m.v, MinusTol) /\ FLe(FAdd(m.u, m.v), OnePlusTol)
        /\ FGt(m.t, TOL_ZERO)

HasNaN(tri, o, d) ==
    LET m == MT(tri, o, d)
    IN  IsNaN(m.det) \/ IsNaN(m.u) \/ IsNaN(m.v) \/ IsNaN(m.t)

Returned == pc = "rt_done"

\* C4: the returned mask has the length and order of the batch, and entry i
\* is true exactly when triangle i passes |det| >= TOL_ZERO, then
\* -TOL_ZERO <= u <= 1 + TOL_ZERO, then v >= -TOL_ZERO and
\* u + v <= 1 + TOL_ZERO, then t > TOL_ZERO.
C4_MaskIsConjunction ==
    Returned =>
        /\ Len(result.value) = Len(batch)
        /\ \A i \in 1..Len(batch) :
              result.value[i] <=> PassesAll(batch[i], ray_origin, ray_direction)

\* C4 on a batch and a ray none of whose quantities is NaN: there the staged
\* filter is the conjunction.
C4_MaskIsConjunctionWithoutNaN ==
    Returned =>
        /\ Len(result.value) = Len(batch)
        /\ \A i \in 1..Len(batch) :
              ~HasNaN(batch[i], ray_origin, ray_direction) =>
                 (result.value[i] <=>
                     PassesAll(batch[i], ray_origin, ray_direction))

\* C4, second part: an entry of the mask that is false stays false.
C4_NeverSetBack ==
    [][\A i \in 1..Len(rt.candidates) :
          (~rt.candidates[i]) => ~rt'.candidates[i]]_vars

\* the positive scale factors tried on the direction (powers of two)
Scales == {Rat(1, 4096), Rat(1, 8), Int2F(8), Int2F(4096)}

\* C5: ray_triangles(triangles, o, d) and ray_triangles(triangles, o, k*d)
\* return the same mask for every positive scale factor k.
C5_ScaleInvariant ==
    Returned =>
        \A k \in Scales :
            ray_triangles(batch, ray_origin, VScale(k, ray_direction))
                = result.value

\* the two comparisons of an absolute tolerance have the same outcome for
\* the directions d and k*d on this triangle
SameTolOutcomes(tri, o, d, k) ==
    LET m  == MT(tri, o, d)
        mk == MT(tri, o, VScale(k, d))
    IN  /\ DetExcluded(m.det) <=> DetExcluded(mk.det)
        /\ TKeep(m.t) <=> TKeep(mk.t)

\* C5 as amended: the masks for d and k*d agree on every triangle on which
\* the comparisons |det| < TOL_ZERO and t > TOL_ZERO have the same outcome
\* for d and for k*d (det is multiplied by k, t divided by k, u and v are
\* unchanged).
C5_ScaleInvariantUpToTolerance ==
    Returned =>
        \A k \in Scales :
            \A i \in 1..Len(batch) :
                SameTolOutcomes(batch[i], ray_origin, ray_direction, k) =>
                    (ray_triangles(batch, ray_origin,
                                   VScale(k, ray_direction))[i]
                        = result.value[i])

\* a hit whose mask entry changes under some scale factor and stays under
\* another one
C5_Witness ==
    /\ Returned
    /\ \E i \in 1..Len(batch) :
          /\ result.value[i]
          /\ \E k \in Scales :
                /\ SameTolOutcomes(batch[i], ray_origin, ray_direction, k)
                /\ ray_triangles(batch, ray_origin,
                                 VScale(k, ray_direction))[i]
          /\ \E k \in Scales :
                ~SameTolOutcomes(batch[i], ray_origin, ray_direction, k)

\* C7: a triangle whose det, u, v, u + v or t is NaN does not survive the
\* stage that compares that value, and its entry in the returned mask is
\* false.
C7_NaNFailsEveryStage ==
    /\ rt.line = 76 =>
          \A i \in 1..Len(rt.det) : IsNaN(rt.det[i]) => ~rt.candidates[i]
    /\ rt.line = 86 =>
          \A j \in 1..Len(rt.u) : IsNaN(rt.u[j]) => ~rt.new_candidates[j]
    /\ rt.line = 97 =>
          \A j \in 1..Len(rt.v) :
              (IsNaN(rt.v[j]) \/ IsNaN(FAdd(rt.u[j], rt.v[j])))
                  => ~rt.new_candidates[j]
    /\ rt.line = 104 =>
          \A j \in 1..Len(rt.t) : IsNaN(rt.t[j]) => ~rt.new_candidates[j]
    /\ Returned =>
          \A i \in 1..Len(batch) :
              HasNaN(batch[i], ray_origin, ray_direction) => ~result.value[i]

\* C7, the part about the returned mask alone
C7_NaNNeverHits ==
    Returned =>
        \A i \in 1..Len(batch) :
            HasNaN(batch[i], ray_origin, ray_direction) => ~result.value[i]

\* C8: a triangle hit by the ray (o, d) is not hit by the ray (o, -d).
C8_NoHitOnReversal ==
    Returned =>
        \A i \in 1..Len(batch) :
            result.value[i] =>
                ~ray_triangles(batch, ray_origin, VNeg(ray_direction))[i]

\* the ray from (0,0,-1) along (0,0,1) has hit the triangle
\* (1,0,0),(0,1,0),(-1,0,0)
C8_Witness ==
    /\ Returned
    /\ batch = <<TriB>>
    /\ ray_origin = IV(0, 0, -1)
    /\ ray_direction = Up
    /\ result.value = <<TRUE>>

(***************************************************************************)
(* Properties of rays_triangles_id (checked under Spec)                    *)
(***************************************************************************)
NTris == Len(triangles)
NRays == Len(rays)

\* every ray has its entry in ray_candidates, and every entry is a mask over
\* the triangles or a list of triangle indices
WellFormed ==
    \/ ray_candidates.isNone
    \/ /\ Len(ray_candidates.items) = NRays
       /\ \A k \in 1..NRays :
             LET c == ray_candidates.items[k]
             IN  IF c.kind = "mask" THEN Len(c.data) = NTris
                 ELSE \A j \in 1..Len(c.data) : c.data[j] \in 0..(NTris - 1)

Mismatched ==
    /\ ~ray_candidates.isNone
    /\ \/ Len(ray_candidates.items) # NRays
       \/ \E k \in 1..Len(ray_candidates.items) :
             /\ ray_candidates.items[k].kind = "mask"
             /\ Len(ray_candidates.items[k].data) # NTris

\* the candidates of ray k (1-based) of well-formed arguments
CandOf(k) ==
    IF ray_candidates.isNone THEN [kind |-> "mask", data |-> Ones(NTris)]
    ELSE ray_candidates.items[k]

\* the candidate set of ray k: 0-based triangle indices
CandSet(k) ==
    LET c == CandOf(k)
    IN  IF c.kind = "mask" THEN {i \in 0..(NTris - 1) : c.data[i + 1]}
        ELSE {c.data[j] : j \in 1..Len(c.data)}

\* the triangles (0-based) that ray_triangles reports ray k to hit when every
\* triangle is tested
HitSet(k) ==
    {i \in 0..(NTris - 1) :
        ray_triangles(triangles, rays[k][1], rays[k][2])[i + 1]}

\* the mask ray_triangles returns for ray k on its candidates
HitOf(k) ==
    ray_triangles(Take(triangles, Index(NTris, CandOf(k), np_strict).pos),
                  rays[k][1], rays[k][2])

RayHits(k) == AnyTrue(HitOf(k))

\* the values of a recorded entry as Python compares them (True == 1)
IntView(e) ==
    [j \in 1..Len(e.data) |->
        IF e.dtype = "bool" THEN (IF e.data[j] THEN 1 ELSE 0) ELSE e.data[j]]

\* the entry holds exactly the indices of S, each once
HoldsIndices(e, S) ==
    LET w == IntView(e)
    IN  /\ {w[j] : j \in 1..Len(w)} = S
        /\ Len(w) = Cardinality(S)

Ended == pc \in {"done", "error"}

\* C1: with return_any false and no ray_candidates the result has one entry
\* per ray, in ray order, and entry k holds the indices of the triangles
\* that ray k hits.
C1_DefaultResultIsHitIndices ==
    (Ended /\ ~return_any /\ ray_candidates.isNone) =>
        /\ result.kind = "hits"
        /\ Len(result.value) = NRays
        /\ \A k \in 1..NRays : HoldsIndices(result.value[k], HitSet(k))

\* what the call with return_any false does on these arguments
FullEntry(k) == MapBack(CandOf(k), HitOf(k), np_strict)
FullReturns ==
    /\ \A k \in 1..NRays : FullEntry(k).ok
    /\ ~(np_strict /\ Ragged([k \in 1..NRays |-> FullEntry(k).value]))
FullHasHit ==
    /\ FullReturns
    /\ \E k \in 1..NRays : Len(FullEntry(k).value.data) > 0

\* C2: the call with return_any true returns True exactly when the call with
\* return_any false on the same arguments returns a result with a non-empty
\* hit list, and False otherwise.
C2_AnyIffSomeHitList ==
    /\ (Ended /\ WellFormed /\ return_any) =>
          /\ result.kind = "bool"
          /\ result.value <=> FullHasHit
    /\ (Ended /\ WellFormed /\ ~return_any) =>
          ((\E k \in 1..NRays : RayHits(k)) <=>
              (/\ result.kind = "hits"
               /\ \E k \in 1..NRays : Len(result.value[k].data) > 0))

\* C3: the result recorded for ray k with the supplied candidate set C is
\* the set of indices in C that the ray hits when every triangle is a
\* candidate.
C3_CandidatesRestrictHits ==
    (WellFormed /\ ~return_any /\ ~ray_candidates.isNone) =>
        /\ result.kind # "IndexError"
        /\ \A k \in 1..NRays :
              hits[k].dtype # "None" =>
                  HoldsIndices(hits[k], CandSet(k) \cap HitSet(k))

\* C6: a call with mismatched arguments ends with an error and never
\* returns a result.
C6_MismatchIsAnError ==
    (Ended /\ Mismatched) => pc = "error"

\* C9: with return_any true the rays are tested in index order, each at most
\* once, up to and including the first ray with a hit and no further; with
\* no hit every ray is tested once and False is returned.
C9_AnyStopsAtFirstHit ==
    (return_any /\ WellFormed) =>
        /\ pc # "error"
        /\ \A j \in 1..NRays : calls[j] \in {0, 1}
        /\ \A j \in 1..NRays :
              calls[j] = 1 =>
                  \A i \in 1..(j - 1) : calls[i] = 1 /\ ~RayHits(i)
        /\ pc = "done" =>
              IF \E k \in 1..NRays : RayHits(k)
              THEN LET k == CHOOSE k \in 1..NRays :
                                /\ RayHits(k)
                                /\ \A i \in 1..(k - 1) : ~RayHits(i)
                   IN  /\ result = [kind |-> "bool", value |-> TRUE]
                       /\ \A j \in 1..NRays :
                             calls[j] = (IF j <= k THEN 1 ELSE 0)
              ELSE /\ result = [kind |-> "bool", value |-> FALSE]
                   /\ \A j \in 1..NRays : calls[j] = 1

\* the second of two rays is the first with a hit: both were tested once
C9_Witness ==
    /\ pc = "done"
    /\ return_any
    /\ WellFormed
    /\ NRays = 2
    /\ ~RayHits(1)
    /\ RayHits(2)
    /\ calls = <<1, 1>>
    /\ result.value

\* C10: the caller's triangles, rays and ray_candidates keep their values
\* throughout a call, and so do the arguments of ray_triangles while it
\* runs.
C10_InputsUnchanged ==
    [][/\ triangles' = triangles
       /\ rays' = rays
       /\ ray_candidates' = ray_candidates
       /\ pc # "loop" =>
             /\ batch' = batch
             /\ ray_origin' = ray_origin
             /\ ray_direction' = ray_direction]_vars

\* a call with a supplied candidate mask has returned, and the staged filter
\* of its last ray cleared an entry of its mask and kept another
C10_Witness ==
    /\ pc = "done"
    /\ NRays >= 1
    /\ WellFormed
    /\ ~ray_candidates.isNone
    /\ ray_candidates.items[NRays].kind = "mask"
    /\ rt.line = 104
    /\ \E i \in 1..Len(rt.candidates) : ~rt.candidates[i]
    /\ AnyTrue(rt.candidates)

====
